---------------------------- MODULE Spec2Model ----------------------------
(***************************************************************************)
(* Model of the Kuffner-Sternwarte lightmeter reader (lightmeter.py) and   *)
(* of its companion converter (lightmeter_table.py).                       *)
(*                                                                         *)
(* Values.  Python strings are TLA+ strings; what a print() call writes is *)
(* one string, and a stream (stdout, the converter's outfile) is the       *)
(* sequence of the strings written to it, in order: the bytes of the       *)
(* stream are their concatenation.                                         *)
(* Floats are carried exactly, as fractions: the temperature in sixteenths *)
(* (the code divides an integer below 8192 by 16, which is exact in binary *)
(* floating point), the daylight illuminance of the linear branches in     *)
(* 1/100000 lux (the decimal coefficients of the calibration table, times  *)
(* 21).  The rounding noise binary floating point adds to the *)
(* last digits of the linear branches is not modelled.  The first branch   *)
(* raises the ratio to the power 1.4; its value is carried symbolically,   *)
(* as the pair of counts it is computed from.                              *)
(* The ratio tests compare Ch1/Ch0, rounded to a double, with a decimal    *)
(* literal rounded to a double; for 16-bit counts the nearest other ratio  *)
(* is more than 1e-7 away from a boundary, so the comparison of the        *)
(* doubles agrees with the comparison of the exact ratios made here.       *)
(***************************************************************************)
EXTENDS Integers, Sequences, FiniteSets, TLC

VARIABLES
    program,     \* which script runs: "lightmeter" or "table"
    pc,          \* position in the script
    format,      \* args.format
    nohw,        \* args.nohw
    now,         \* the wall clock, int(time())
    cycle,       \* number of lmeter.read() calls started
    unix,        \* read(): unix
    raw,         \* the response buffer of the last endpointIn.read
    light,       \* read(): (L, daylight, isOK) returned by _readLight
    T,           \* read(): T returned by _readTemperature
    l,           \* the loop's variable l: the last Reading returned
    exc,         \* the exception being propagated, "" when none
    trace,       \* the steps of the current sampling cycle, in order
    stdout,      \* the strings written to the output stream, in order
    records,     \* per loop pass that printed a record: what it formatted and wrote
    printComma,  \* the json_table separator
    atexit,      \* whether finish() is registered
    infile,      \* the converter's unread input lines
    closed,      \* whether the converter's outfile is closed
    exitKind     \* how the process ended, "" while it runs

vars ==
    <<program, pc, format, nohw, now, cycle, unix, raw, light, T, l, exc,
      trace, stdout, records, printComma, atexit, infile, closed, exitKind>>

(***************************************************************************)
(* Bounds of the model.                                                    *)
(***************************************************************************)
MaxCycles == 3

MaxTime == 1

MaxLines == 2

MaxCount == 13

MaxRangeByte == 7

(***************************************************************************)
(* Python values.                                                          *)
(***************************************************************************)
None == "None"

\* a variable that is unset or None, and one that holds v
NoValue == <<>>

Some(v) == <<v>>

Ok(v) == [ok |-> TRUE, val |-> v, exc |-> ""]

Raise(e) == [ok |-> FALSE, val |-> None, exc |-> e]

Byte == 0..255

(***************************************************************************)
(* String helpers: str.rstrip, the `in` test and str.replace of Python.    *)
(***************************************************************************)
Whitespace == {" ", "\n", "\t", "\r"}

RECURSIVE rstrip(_)
rstrip(s) ==
    IF Len(s) > 0 /\ SubSeq(s, Len(s), Len(s)) \in Whitespace
    THEN rstrip(SubSeq(s, 1, Len(s) - 1))
    ELSE s

\* the positions where sub occurs in s
Occurrences(s, sub) ==
    {i \in 1..(Len(s) - Len(sub) + 1) : SubSeq(s, i, i + Len(sub) - 1) = sub}

\* sub in s
Contains(s, sub) == Occurrences(s, sub) # {}

\* s.replace(old, new): every occurrence, from the left, without overlap
RECURSIVE replace(_, _, _)
replace(s, old, new) ==
    IF ~Contains(s, old) THEN s
    ELSE LET i == CHOOSE k \in Occurrences(s, old) :
                      \A m \in Occurrences(s, old) : k <= m
         IN  SubSeq(s, 1, i - 1) \o new
                 \o replace(SubSeq(s, i + Len(old), Len(s)), old, new)

\* s without the zeros at its end
RECURSIVE StripZeros(_)
StripZeros(s) ==
    IF Len(s) > 0 /\ SubSeq(s, Len(s), Len(s)) = "0"
    THEN StripZeros(SubSeq(s, 1, Len(s) - 1))
    ELSE s

\* s padded with zeros on the left to width w
RECURSIVE ZeroPad(_, _)
ZeroPad(s, w) == IF Len(s) >= w THEN s ELSE ZeroPad("0" \o s, w)

Abs(n) == IF n < 0 THEN -n ELSE n

RECURSIVE Pow10(_)
Pow10(k) == IF k <= 0 THEN 1 ELSE 10 * Pow10(k - 1)

(***************************************************************************)
(* Numbers.  A float is the exact fraction num/den; den divides 100000.    *)
(***************************************************************************)
TrueDiv(a, b) == [num |-> a, den |-> b]

\* round(|num|/unit) with ties to the even neighbour, as float formatting does
RoundHalfEven(num, unit) ==
    LET q == num \div unit
        r == num % unit
    IN  IF 2 * r > unit \/ (2 * r = unit /\ q % 2 = 1) THEN q + 1 ELSE q

\* str(x) of a float x = num/den: the shortest decimal, at least one decimal
FloatStr(x) ==
    LET ip == Abs(x.num) \div x.den
        fp == (Abs(x.num) % x.den) * (100000 \div x.den)
        fs == StripZeros(ZeroPad(ToString(fp), 5))
    IN  (IF x.num < 0 THEN "-" ELSE "") \o ToString(ip) \o "."
            \o (IF fs = "" THEN "0" ELSE fs)

\* '{:.1f}'.format(x)
Format1f(x) ==
    LET tenths == RoundHalfEven(10 * Abs(x.num), x.den)
    IN  (IF x.num < 0 THEN "-" ELSE "") \o ToString(tenths \div 10) \o "."
            \o ToString(tenths % 10)

\* '{:.3g}'.format(x) of x = num/den >= 0: three significant digits, fixed
\* notation for a decimal exponent in -4..2 and d.dde+XX otherwise, the
\* zeros at the end of the fraction dropped
Format3g(x) ==
    LET n  == x.num * (100000 \div x.den)        \* x in 1/100000
        p  == Len(ToString(n))                   \* 10^(p-1) <= n < 10^p
        q0 == IF p <= 3 THEN n * Pow10(3 - p)
              ELSE RoundHalfEven(n, Pow10(p - 3))
        up == q0 = 1000                          \* 9.995 rounds to 10.0
        q  == IF up THEN 100 ELSE q0             \* the three digits
        X  == (p - 6) + (IF up THEN 1 ELSE 0)    \* the decimal exponent
        d  == ToString(q)
        frac(s) == IF StripZeros(s) = "" THEN "" ELSE "." \o StripZeros(s)
    IN  IF n = 0 THEN "0"
        ELSE IF X >= 3
        THEN SubSeq(d, 1, 1) \o frac(SubSeq(d, 2, 3)) \o "e+" \o ZeroPad(ToString(X), 2)
        ELSE IF X = 2 THEN d
        ELSE IF X = 1 THEN SubSeq(d, 1, 2) \o frac(SubSeq(d, 3, 3))
        ELSE IF X = 0 THEN SubSeq(d, 1, 1) \o frac(SubSeq(d, 2, 3))
        ELSE IF X >= -4 THEN "0" \o frac(ZeroPad(d, 2 - X))
        ELSE SubSeq(d, 1, 1) \o frac(SubSeq(d, 2, 3)) \o "e-" \o ZeroPad(ToString(-X), 2)

(***************************************************************************)
(* Lightmeter._readTemperature, lines 119-122: the length check and the    *)
(* decoding of the response.                                               *)
(***************************************************************************)
TemperatureLen == 2

\* as decodeTemperature, the three status bits of b0 kept as a fraction
decodeTemperatureKeepsBits(rawT) ==
    IF Len(rawT) # TemperatureLen THEN Raise("RuntimeError: USB read error")
    ELSE Ok(TrueDiv(rawT[1] + rawT[2] * 256, 128))

decodeTemperature(rawT) ==
    IF Len(rawT) # TemperatureLen THEN Raise("RuntimeError: USB read error")
    ELSE Ok(TrueDiv(rawT[1] \div 8 + rawT[2] * 32, 16))

(***************************************************************************)
(* Lightmeter._luxFromDaysensor.  Chr = Ch1/Ch0 is compared as a ratio of  *)
(* integers: Chr <= h/100 is 100*Ch1 <= h*Ch0.  The result is in 1/100000  *)
(* lux: 0.0224 is 2240, 0.031 is 3100, 0.0128 is 1280, 0.0153 is 1530,     *)
(* 0.00146 is 146, 0.00112 is 112.                                         *)
(***************************************************************************)
Faktor == 21

\* as ChrLe, the boundary excluded
ChrLeStrict(Ch0, Ch1, h) == 100 * Ch1 < h * Ch0

ChrLe(Ch0, Ch1, h) == 100 * Ch1 <= h * Ch0

ChrGt(Ch0, Ch1, h) == 100 * Ch1 > h * Ch0

\* a float daylight value of num/100000 lux
LuxValue(num) == [kind |-> "float", num |-> num, den |-> 100000, ch |-> <<>>]

\* (0.0304*Ch0 - 0.062*Ch0*(Ch1/Ch0)**1.4) * 21.0, not evaluated
LuxPow(Ch0, Ch1) == [kind |-> "pow", num |-> 0, den |-> 100000, ch |-> <<Ch0, Ch1>>]

\* lines 131-139, for Ch0 > 0
Calibration(Ch0, Ch1) ==
    IF ChrLe(Ch0, Ch1, 50) THEN Ok(LuxPow(Ch0, Ch1))
    ELSE IF ChrGt(Ch0, Ch1, 50) /\ ChrLe(Ch0, Ch1, 61)
         THEN Ok(LuxValue((2240 * Ch0 - 3100 * Ch1) * Faktor))
    ELSE IF ChrGt(Ch0, Ch1, 61) /\ ChrLe(Ch0, Ch1, 80)
         THEN Ok(LuxValue((1280 * Ch0 - 1530 * Ch1) * Faktor))
    ELSE IF ChrGt(Ch0, Ch1, 80) /\ ChrLe(Ch0, Ch1, 130)
         THEN Ok(LuxValue((146 * Ch0 - 112 * Ch1) * Faktor))
    ELSE IF ChrGt(Ch0, Ch1, 130) THEN Ok(LuxValue(0 * Faktor))
    ELSE Raise("RuntimeError: Invalid daysensor channel ratio.")

\* as luxFromDaysensor, a division by zero yielding a value instead of raising
luxFromDaysensorNoRaise(Ch0, Ch1) ==
    IF Ch0 = 0 THEN Ok(LuxValue(0)) ELSE Calibration(Ch0, Ch1)

\* line 129 raises ZeroDivisionError for Ch0 = 0: Ch0 and Ch1 are ints
luxFromDaysensor(Ch0, Ch1) ==
    IF Ch0 = 0 THEN Raise("ZeroDivisionError") ELSE Calibration(Ch0, Ch1)

(***************************************************************************)
(* Lightmeter._readLight, lines 147-157: the length check and the decoding *)
(* of the response.  factors[0] is None, written 0 here, and rawReading *  *)
(* None is a TypeError; factors has six entries and an index above 5 is an *)
(* IndexError.                                                             *)
(***************************************************************************)
LightLen == 7

SaturationCounts == 32000

factors == <<0, 120, 8, 4, 2, 1>>

\* as scaleByRange, an index without a factor treated as range 5
scaleByRangeDefault(rawReading, measurementRange) ==
    IF measurementRange \in 1..5
    THEN Ok(rawReading * factors[measurementRange + 1])
    ELSE Ok(rawReading)

\* line 154: rawReading * factors[measurementRange]
scaleByRange(rawReading, measurementRange) ==
    IF measurementRange + 1 > Len(factors) THEN Raise("IndexError")
    ELSE IF measurementRange = 0 THEN Raise("TypeError")
    ELSE Ok(rawReading * factors[measurementRange + 1])

\* as belowSaturation, the threshold itself accepted
belowSaturationInclusive(rawReading) == rawReading <= SaturationCounts

\* line 155
belowSaturation(rawReading) == rawReading < SaturationCounts

decodeLight(rawL) ==
    IF Len(rawL) # LightLen THEN Raise("RuntimeError: USB read error")
    ELSE
      LET measurementRange == rawL[3]
          TslMw0 == 256 * rawL[5] + rawL[4]
          TslMw1 == 256 * rawL[7] + rawL[6]
          rawReading == 256 * rawL[2] + rawL[1]
          reading == scaleByRange(rawReading, measurementRange)
          isOK == belowSaturation(rawReading)
          daylight == luxFromDaysensor(TslMw0, TslMw1)
      IN  IF ~reading.ok THEN reading
          ELSE IF ~daylight.ok THEN daylight
          ELSE Ok([L |-> reading.val, daylight |-> daylight.val, isOK |-> isOK])

(***************************************************************************)
(* Lightmeter.Reading and its renderings.                                  *)
(***************************************************************************)
\* datetime.fromtimestamp(unix), for a clock within the first day of the
\* epoch and the time zone UTC
fromtimestamp(u) ==
    [year |-> 1970, month |-> 1, day |-> 1,
     hour |-> u \div 3600, minute |-> (u \div 60) % 60, second |-> u % 60]

DateStr(d, sep) ==
    ZeroPad(ToString(d.year), 4) \o "-" \o ZeroPad(ToString(d.month), 2) \o "-"
        \o ZeroPad(ToString(d.day), 2) \o sep \o ZeroPad(ToString(d.hour), 2) \o ":"
        \o ZeroPad(ToString(d.minute), 2) \o ":" \o ZeroPad(ToString(d.second), 2)

\* str(utc)
str(d) == DateStr(d, " ")

isoformat(d) == DateStr(d, "T")

Reading(utc, unx, lightlevel, daylight, temperature, status) ==
    [utc |-> utc, unix |-> unx, lightlevel |-> lightlevel, daylight |-> daylight,
     temperature |-> temperature, status |-> status]

\* the source text of the branch the model does not evaluate
PowText(ch) ==
    "(0.0304*" \o ToString(ch[1]) \o "-0.062*" \o ToString(ch[1]) \o "*("
        \o ToString(ch[2]) \o "/" \o ToString(ch[1]) \o ")**1.4)*21.0"

\* str(daylight): a float of _luxFromDaysensor, or the int of the mock
DaylightStr(d) ==
    IF d.kind = "int" THEN ToString(d.num)
    ELSE IF d.kind = "pow" THEN PowText(d.ch)
    ELSE FloatStr(d)

\* '{:.3g}'.format(daylight)
DaylightFormat3g(d) ==
    IF d.kind = "pow" THEN "{:.3g}[" \o PowText(d.ch) \o "]" ELSE Format3g(d)

colOrder == <<"utc", "temperature", "lightlevel", "daylight", "status">>

abbrevOrder == <<"TS", "T", "L", "D", "S">>

RECURSIVE join(_, _)
join(sep, strs) ==
    IF Len(strs) = 0 THEN ""
    ELSE IF Len(strs) = 1 THEN strs[1]
    ELSE strs[1] \o sep \o join(sep, Tail(strs))

\* Reading.json
json(r, abbrev) ==
    LET dct == [utc |-> "\"" \o isoformat(r.utc) \o "\"",
                unix |-> ToString(r.unix),
                lightlevel |-> ToString(r.lightlevel),
                daylight |-> DaylightStr(r.daylight),
                temperature |-> FloatStr(r.temperature),
                status |-> IF r.status THEN "true" ELSE "false"]
        order == IF abbrev THEN abbrevOrder ELSE colOrder
    IN  "{" \o join(", ", [i \in 1..Len(colOrder) |->
                             "\"" \o order[i] \o "\": " \o dct[colOrder[i]]]) \o "}"

\* the text row of the sampling loop, lines 249-253
TextRow(r) ==
    join(" ", <<str(r.utc), ToString(r.unix), Format1f(r.temperature),
                ToString(r.lightlevel), DaylightFormat3g(r.daylight),
                IF r.status THEN "OK" ELSE "ERROR">>) \o "\n"

TextHeader ==
    "# DATE_UTC TIME_UTC UNIX_EPOCH T_CELSIUS LIGHTMETER_COUNTS DAYLIGHT_LUX STATUS\n"

jsonSchemaPrefix ==
    "{\"schema\": {\n"
    \o "    \"primaryKey\": [\"TS\"],\n"
    \o "    \"fields\": [\n"
    \o "        {\"name\": \"TS\",\n"
    \o "         \"type\": \"datetime\",\n"
    \o "         \"title\": \"Timestamp\",\n"
    \o "         \"description\": \"ISO8601 string, UTC\"},\n"
    \o "        {\"name\": \"T\",\n"
    \o "         \"type\": \"number\",\n"
    \o "         \"title\": \"Temperature\",\n"
    \o "         \"description\": \"Temperature in degrees Celsius\"},\n"
    \o "        {\"name\": \"L\",\n"
    \o "         \"type\": \"integer\",\n"
    \o "         \"title\": \"Light level\",\n"
    \o "         \"description\": \"Light level counts, no calibration\"},\n"
    \o "        {\"name\": \"D\",\n"
    \o "         \"type\": \"integer\",\n"
    \o "         \"title\": \"Daylight\",\n"
    \o "         \"description\": \"Daylight sensor reading in Lux\"},\n"
    \o "        {\"name\": \"S\",\n"
    \o "         \"type\": \"boolean\",\n"
    \o "         \"title\": \"Status\",\n"
    \o "         \"description\": \"True if everything is OK, false otherwise\"}\n"
    \o "    ]\n"
    \o " },\n"
    \o " \"data\": ["

\* what finish() prints
FinishText == "\n]}\n"

(***************************************************************************)
(* Inputs: command-line arguments, what the transport returns, what the    *)
(* mock draws, the converter's input lines.                                *)
(***************************************************************************)
Formats == {"text", "json_table", "json_lines", "json_lines_long"}

\* outcomes of Lightmeter._initDevice as seen by the script
InitOutcomes ==
    {"ok", "RuntimeError: Device not found", "RuntimeError: Unable to open endpoints",
     "USBError errno 13", "USBError"}

\* byte counts endpointOut.write may return
WriteCounts == {0, 1, 2}

\* responses to 'L': in range 5 and the second branch; saturated, range 1,
\* ratio above 1.30; range index 0 and 6; channel 0 at zero; short reads
LightResponses ==
    {<<100, 0, 5, 50, 0, 30, 0>>, <<0, 125, 1, 100, 0, 0, 1>>,
     <<100, 0, 0, 50, 0, 30, 0>>, <<100, 0, 6, 50, 0, 30, 0>>,
     <<100, 0, 5, 0, 0, 30, 0>>, <<255, 124, 2, 0, 0, 0, 0>>,
     <<>>, <<100, 0, 5, 50, 0, 30>>}

\* responses to 'T'
TemperatureResponses == {<<0, 8>>, <<255, 0>>, <<>>, <<0>>}

\* what _MockLightmeter.read may draw
MockReadings ==
    {[lightlevel |-> 1000, daylight |-> 1, temperature |-> -20, status |-> TRUE],
     [lightlevel |-> 99999, daylight |-> 999, temperature |-> 39, status |-> FALSE]}

MockDaylight(n) == [kind |-> "int", num |-> n, den |-> 1, ch |-> <<>>]

SampleReading ==
    Reading(fromtimestamp(0), 0, 100, LuxValue(399000), TrueDiv(31, 16), TRUE)

\* lines the converter may be fed: a short record, a long record, a last
\* line without its newline, a blank line
InputLines ==
    {json(SampleReading, TRUE) \o "\n", json(SampleReading, FALSE) \o "\n",
     json(SampleReading, FALSE), "\n"}

RECURSIVE SeqsUpTo(_, _)
SeqsUpTo(S, n) ==
    IF n = 0 THEN {<<>>}
    ELSE SeqsUpTo(S, n - 1) \cup
         {Append(q, x) : q \in {r \in SeqsUpTo(S, n - 1) : Len(r) = n - 1}, x \in S}

(***************************************************************************)
(* The initial state: the interpreter starts one of the two scripts.       *)
(***************************************************************************)
Fresh ==
    /\ pc = "start"
    /\ now = 0
    /\ cycle = 0
    /\ unix = 0
    /\ raw = <<>>
    /\ light = NoValue
    /\ T = NoValue
    /\ l = NoValue
    /\ exc = ""
    /\ trace = <<>>
    /\ stdout = <<>>
    /\ records = <<>>
    /\ printComma = ""
    /\ atexit = FALSE
    /\ closed = FALSE
    /\ exitKind = ""

Init ==
    /\ Fresh
    /\ \/ /\ program = "lightmeter"
          /\ format \in Formats
          /\ nohw \in BOOLEAN
          /\ infile = <<>>
       \/ /\ program = "table"
          /\ format = "json_table"
          /\ nohw = FALSE
          /\ infile \in SeqsUpTo(InputLines, MaxLines)

Running == pc # "exited"

\* a step of a sampling cycle: reading the clock ("time", the second read), a
\* transport call ("write" or "read" of command cmd, with the count written
\* or the length read, Raised when the call itself raised), the call of
\* _luxFromDaysensor ("lux"), the construction of the Reading ("Reading")
Raised == 0 - 1

Step(op, cmd, res) == [op |-> op, cmd |-> cmd, res |-> res]

\* an exception leaves the current frame: nothing else of the script runs
RaiseExc(e) ==
    /\ exc' = e
    /\ pc' = "raised"

(***************************************************************************)
(* lightmeter.py, the script.                                              *)
(***************************************************************************)
\* lines 221-234
CreateLightmeter ==
    /\ pc = "start"
    /\ program = "lightmeter"
    /\ \E outcome \in InitOutcomes :
         IF nohw \/ outcome = "ok"
         THEN /\ pc' = "header"
              /\ UNCHANGED <<exc, stdout, exitKind>>
         ELSE IF outcome = "USBError errno 13"
         THEN /\ stdout' = Append(stdout, "Alternatively, use udev to fix this permanently.\n")
              /\ pc' = "exited"
              /\ exitKind' = "exit(1)"
              /\ exc' = exc
         ELSE /\ RaiseExc(outcome)
              /\ UNCHANGED <<stdout, exitKind>>
    /\ UNCHANGED <<program, format, nohw, now, cycle, unix, raw, light, T, l,
                   trace, records, printComma, atexit, infile, closed>>

\* lines 236-241
WriteHeader ==
    /\ pc = "header"
    /\ IF format = "text"
       THEN /\ stdout' = Append(stdout, TextHeader)
            /\ pc' = "loop"
            /\ printComma' = printComma
       ELSE IF format = "json_table"
       THEN /\ stdout' = Append(stdout, jsonSchemaPrefix \o "\n")
            /\ printComma' = ""
            /\ pc' = "register"
       ELSE /\ pc' = "loop"
            /\ UNCHANGED <<stdout, printComma>>
    /\ UNCHANGED <<program, format, nohw, now, cycle, unix, raw, light, T, l, exc,
                   trace, records, atexit, infile, closed, exitKind>>

\* lines 242-244, and lines 64-67 of lightmeter_table.py: atexit.register(finish)
RegisterFinish ==
    /\ pc = "register"
    /\ atexit' = TRUE
    /\ pc' = "loop"
    /\ UNCHANGED <<program, format, nohw, now, cycle, unix, raw, light, T, l, exc,
                   trace, stdout, records, printComma, infile, closed, exitKind>>

(***************************************************************************)
(* Lightmeter.read, one step per statement that calls the transport.       *)
(***************************************************************************)
\* line 247 calls read(); line 51: unix = int(time())
ReadStart ==
    /\ pc = "loop"
    /\ program = "lightmeter"
    /\ ~nohw
    /\ cycle < MaxCycles
    /\ cycle' = cycle + 1
    /\ unix' = now
    /\ raw' = <<>>
    /\ light' = NoValue
    /\ T' = NoValue
    /\ trace' = <<Step("time", "", now)>>
    /\ pc' = "L_write"
    /\ UNCHANGED <<program, format, nohw, now, l, exc, stdout, records,
                   printComma, atexit, infile, closed, exitKind>>

\* as WriteOpcode, the count written not checked
WriteOpcodeUnchecked(op, next) ==
    /\ \/ \E N \in WriteCounts :
            /\ trace' = Append(trace, Step("write", op, N))
            /\ pc' = next
            /\ exc' = exc
       \/ /\ trace' = Append(trace, Step("write", op, Raised))
          /\ RaiseExc("USBError")
    /\ UNCHANGED <<program, format, nohw, now, cycle, unix, raw, light, T, l,
                   stdout, records, printComma, atexit, infile, closed, exitKind>>

\* endpointOut.write(op) and the check of its count: lines 143-145, 115-117
WriteOpcode(op, next) ==
    /\ \/ \E N \in WriteCounts :
            /\ trace' = Append(trace, Step("write", op, N))
            /\ IF N # 1
               THEN RaiseExc("RuntimeError: USB write error")
               ELSE pc' = next /\ exc' = exc
       \/ /\ trace' = Append(trace, Step("write", op, Raised))
          /\ RaiseExc("USBError")
    /\ UNCHANGED <<program, format, nohw, now, cycle, unix, raw, light, T, l,
                   stdout, records, printComma, atexit, infile, closed, exitKind>>

\* endpointIn.read(n): lines 146, 118
ReadResponse(op, responses, next) ==
    /\ \/ \E r \in responses :
            /\ trace' = Append(trace, Step("read", op, Len(r)))
            /\ raw' = r
            /\ pc' = next
            /\ exc' = exc
       \/ /\ trace' = Append(trace, Step("read", op, Raised))
          /\ RaiseExc("USBError")
          /\ raw' = raw
    /\ UNCHANGED <<program, format, nohw, now, cycle, unix, light, T, l,
                   stdout, records, printComma, atexit, infile, closed, exitKind>>

\* lines 142-145
LightWrite ==
    /\ pc = "L_write"
    /\ WriteOpcode("L", "L_read")

\* line 146
LightRead ==
    /\ pc = "L_read"
    /\ ReadResponse("L", LightResponses, "L_decode")

\* whether line 156 is reached: the call of _luxFromDaysensor
ReachesLux(rawL) ==
    /\ Len(rawL) = LightLen
    /\ rawL[3] # 0
    /\ rawL[3] < Len(factors)

\* lines 147-157
LightDecode ==
    /\ pc = "L_decode"
    /\ LET res == decodeLight(raw)
       IN  /\ trace' = IF ReachesLux(raw)
                         THEN Append(trace, Step("lux", "", 0))
                         ELSE trace
           /\ IF res.ok
              THEN /\ light' = Some(res.val)
                   /\ pc' = "T_write"
                   /\ exc' = exc
              ELSE /\ RaiseExc(res.exc)
                   /\ light' = light
    /\ UNCHANGED <<program, format, nohw, now, cycle, unix, raw, T, l,
                   stdout, records, printComma, atexit, infile, closed, exitKind>>

\* lines 114-117
TempWrite ==
    /\ pc = "T_write"
    /\ WriteOpcode("T", "T_read")

\* line 118
TempRead ==
    /\ pc = "T_read"
    /\ ReadResponse("T", TemperatureResponses, "T_decode")

\* lines 119-122
TempDecode ==
    /\ pc = "T_decode"
    /\ LET res == decodeTemperature(raw)
       IN  IF res.ok
           THEN /\ T' = Some(res.val)
                /\ pc' = "assemble"
                /\ exc' = exc
           ELSE /\ RaiseExc(res.exc)
                /\ T' = T
    /\ UNCHANGED <<program, format, nohw, now, cycle, unix, raw, light, l, trace,
                   stdout, records, printComma, atexit, infile, closed, exitKind>>

\* as Assemble, the instant taken when the Reading is built
AssembleLate ==
    /\ pc = "assemble"
    /\ l' = Some(Reading(fromtimestamp(now), now, light[1].L, light[1].daylight,
                         T[1], light[1].isOK))
    /\ trace' = Append(trace, Step("Reading", "", 0))
    /\ pc' = "emit"
    /\ UNCHANGED <<program, format, nohw, now, cycle, unix, raw, light, T, exc,
                   stdout, records, printComma, atexit, infile, closed, exitKind>>

\* lines 54-57
Assemble ==
    /\ pc = "assemble"
    /\ l' = Some(Reading(fromtimestamp(unix), unix, light[1].L, light[1].daylight,
                         T[1], light[1].isOK))
    /\ trace' = Append(trace, Step("Reading", "", 0))
    /\ pc' = "emit"
    /\ UNCHANGED <<program, format, nohw, now, cycle, unix, raw, light, T, exc,
                   stdout, records, printComma, atexit, infile, closed, exitKind>>

\* _MockLightmeter.read, lines 162-171
MockRead ==
    /\ pc = "loop"
    /\ program = "lightmeter"
    /\ nohw
    /\ cycle < MaxCycles
    /\ cycle' = cycle + 1
    /\ unix' = now
    /\ \E m \in MockReadings :
         l' = Some(Reading(fromtimestamp(now), now, m.lightlevel,
                           MockDaylight(m.daylight), TrueDiv(m.temperature, 1),
                           m.status))
    /\ trace' = <<Step("time", "", now), Step("Reading", "", 0)>>
    /\ pc' = "emit"
    /\ UNCHANGED <<program, format, nohw, now, raw, light, T, exc, stdout,
                   records, printComma, atexit, infile, closed, exitKind>>

(***************************************************************************)
(* The sampling loop of lightmeter.py, lines 246-261.                      *)
(***************************************************************************)
\* what one pass of the loop writes for Reading r: lines 248-259
RecordText(fmt, comma, r) ==
    IF fmt = "text" THEN TextRow(r)
    ELSE IF fmt = "json_lines" THEN json(r, TRUE) \o "\n"
    ELSE IF fmt = "json_lines_long" THEN json(r, FALSE) \o "\n"
    ELSE comma \o "\n" \o json(r, TRUE)

\* as NextComma, the separator never set
NextCommaUnset(fmt, comma) == comma

\* the separator after a record has been written: line 260
NextComma(fmt, comma) == IF fmt = "json_table" THEN "," ELSE comma

\* lines 248-260
EmitRecord ==
    /\ pc = "emit"
    /\ LET text == RecordText(format, printComma, l[1])
       IN  /\ stdout' = Append(stdout, text)
           /\ records' = Append(records, [reading |-> l, text |-> text])
    /\ printComma' = NextComma(format, printComma)
    /\ pc' = "sleep"
    /\ UNCHANGED <<program, format, nohw, now, cycle, unix, raw, light, T, l, exc,
                   trace, atexit, infile, closed, exitKind>>

\* line 261
Sleep ==
    /\ pc = "sleep"
    /\ pc' = "loop"
    /\ UNCHANGED <<program, format, nohw, now, cycle, unix, raw, light, T, l, exc,
                   trace, stdout, records, printComma, atexit, infile, closed,
                   exitKind>>

\* where the script blocks: the transport calls and the sleep
Blocking == {"L_write", "L_read", "T_write", "T_read", "sleep"}

\* a second passes while the script blocks; time() of line 51 reads the clock
Tick ==
    /\ pc \in Blocking
    /\ now < MaxTime
    /\ now' = now + 1
    /\ UNCHANGED <<program, pc, format, nohw, cycle, unix, raw, light, T, l, exc,
                   trace, stdout, records, printComma, atexit, infile, closed,
                   exitKind>>

(***************************************************************************)
(* lightmeter_table.py, the script.                                        *)
(***************************************************************************)
longNames == <<"utc", "temperature", "lightlevel", "daylight", "status">>

shortNames == <<"TS", "T", "L", "D", "S">>

\* lines 75-76: line.replace(long, short) for the pairs from the i-th on
RECURSIVE Rename(_, _)
Rename(line, i) ==
    IF i > Len(longNames) THEN line
    ELSE Rename(replace(line, longNames[i], shortNames[i]), i + 1)

\* lines 73-77
ConvertLine(line) ==
    rstrip(IF Contains(line, "lightlevel") THEN Rename(line, 1) ELSE line)

\* lines 49-62: the files are opened, which may fail, and the preamble is
\* written
ConvOpen ==
    /\ pc = "start"
    /\ program = "table"
    /\ \/ /\ stdout' = Append(stdout, jsonSchemaPrefix)
          /\ printComma' = ""
          /\ pc' = "register"
          /\ exc' = exc
       \/ /\ RaiseExc("OSError")
          /\ UNCHANGED <<stdout, printComma>>
    /\ UNCHANGED <<program, format, nohw, now, cycle, unix, raw, light, T, l,
                   trace, records, atexit, infile, closed, exitKind>>

\* lines 70-72 at the end of the input: readline returns '' and the loop is left
ConvEof ==
    /\ pc = "loop"
    /\ program = "table"
    /\ infile = <<>>
    /\ pc' = "finished"
    /\ UNCHANGED <<program, format, nohw, now, cycle, unix, raw, light, T, l, exc,
                   trace, stdout, records, printComma, atexit, infile, closed,
                   exitKind>>

\* lines 70-79 for a line of the input
ConvLine ==
    /\ pc = "loop"
    /\ program = "table"
    /\ infile # <<>>
    /\ LET text == printComma \o "\n" \o ConvertLine(Head(infile))
       IN  /\ stdout' = Append(stdout, text)
           /\ records' = Append(records, [reading |-> NoValue, text |-> text])
    /\ infile' = Tail(infile)
    /\ printComma' = ","
    /\ UNCHANGED <<program, pc, format, nohw, now, cycle, unix, raw, light, T, l,
                   exc, trace, atexit, closed, exitKind>>

(***************************************************************************)
(* How the interpreter ends.  Callbacks registered with atexit run when    *)
(* the interpreter exits: at the end of the script, after an uncaught      *)
(* exception, KeyboardInterrupt included.  They do not run when a signal   *)
(* Python does not handle kills the process; neither script installs a     *)
(* handler, so SIGTERM is such a signal.                                   *)
(***************************************************************************)
\* SIGINT: KeyboardInterrupt is raised in the script, wherever it is
Interrupt ==
    /\ pc \notin {"exited", "raised", "finished"}
    /\ RaiseExc("KeyboardInterrupt")
    /\ UNCHANGED <<program, format, nohw, now, cycle, unix, raw, light, T, l,
                   trace, stdout, records, printComma, atexit, infile, closed,
                   exitKind>>

\* finish(): lines 243-244 of lightmeter.py, lines 65-67 of lightmeter_table.py
Finish ==
    /\ stdout' = IF atexit THEN Append(stdout, FinishText) ELSE stdout
    /\ closed' = IF atexit /\ program = "table" THEN TRUE ELSE closed

\* as ExitInterpreter, the loop catching what a sampling cycle raises and
\* going on to the next sample
CatchAndContinue ==
    /\ pc \in {"raised", "finished"}
    /\ IF pc = "raised" /\ cycle >= 1 /\ exc # "KeyboardInterrupt"
       THEN /\ pc' = "sleep"
            /\ exc' = ""
            /\ UNCHANGED <<stdout, closed, exitKind>>
       ELSE /\ Finish
            /\ pc' = "exited"
            /\ exitKind' = IF pc = "finished" THEN "end of script" ELSE exc
            /\ exc' = exc
    /\ UNCHANGED <<program, format, nohw, now, cycle, unix, raw, light, T, l,
                   trace, records, printComma, atexit, infile>>

\* the interpreter exits: the registered callbacks run
ExitInterpreter ==
    /\ pc \in {"raised", "finished"}
    /\ Finish
    /\ pc' = "exited"
    /\ exitKind' = IF pc = "finished" THEN "end of script" ELSE exc
    /\ UNCHANGED <<program, format, nohw, now, cycle, unix, raw, light, T, l, exc,
                   trace, records, printComma, atexit, infile>>

\* SIGTERM: the process is killed, no callback runs
Terminate ==
    /\ Running
    /\ pc' = "exited"
    /\ exitKind' = "SIGTERM"
    /\ UNCHANGED <<program, format, nohw, now, cycle, unix, raw, light, T, l, exc,
                   trace, stdout, records, printComma, atexit, infile, closed>>

Next ==
    \/ CreateLightmeter
    \/ WriteHeader
    \/ RegisterFinish
    \/ ReadStart
    \/ LightWrite
    \/ LightRead
    \/ LightDecode
    \/ TempWrite
    \/ TempRead
    \/ TempDecode
    \/ Assemble
    \/ MockRead
    \/ EmitRecord
    \/ Sleep
    \/ Tick
    \/ ConvOpen
    \/ ConvEof
    \/ ConvLine
    \/ Interrupt
    \/ ExitInterpreter
    \/ Terminate

Spec == Init /\ [][Next]_vars

(***************************************************************************)
(* The decoders on wide inputs: the script right after endpointIn.read has *)
(* returned, for every response of a wide set.                             *)
(***************************************************************************)
\* low bytes of the channel counts: a range from 0 and the values that put
\* the ratio on the boundaries 0.50, 0.61, 0.80 and 1.30
CountBytes == (0..MaxCount) \cup {30, 50, 61, 80, 100, 130, 255}

\* range index bytes: around the valid 1..5
RangeBytes == (0..MaxRangeByte) \cup {255}

WideLightResponses ==
    {<<100, 0, 5, a, b, c, d>> : a \in CountBytes, b \in {0, 1}, c \in CountBytes, d \in {0, 1}}
    \cup {<<b0, b1, b2, ch[1], 0, ch[2], 0>> :
            b0 \in {0, 1, 255}, b1 \in {0, 1, 124, 125, 255}, b2 \in RangeBytes,
            ch \in {<<50, 30>>, <<0, 30>>, <<0, 0>>}}
    \cup {<<>>, <<100, 0, 5, 50, 0, 30>>}

WideTemperatureResponses ==
    {<<b0, b1>> : b0 \in Byte, b1 \in Byte} \cup {<<>>, <<0>>}

InitDecode ==
    /\ program = "lightmeter"
    /\ format = "text"
    /\ nohw = FALSE
    /\ infile = <<>>
    /\ now = 0
    /\ cycle = 1
    /\ unix = 0
    /\ T = NoValue
    /\ l = NoValue
    /\ exc = ""
    /\ stdout = <<TextHeader>>
    /\ records = <<>>
    /\ printComma = ""
    /\ atexit = FALSE
    /\ closed = FALSE
    /\ exitKind = ""
    /\ \/ /\ pc = "L_decode"
          /\ raw \in WideLightResponses
          /\ light = NoValue
          /\ trace = <<Step("time", "", 0), Step("write", "L", 1),
                       Step("read", "L", Len(raw))>>
       \/ /\ pc = "T_decode"
          /\ raw \in WideTemperatureResponses
          /\ light = Some(decodeLight(<<100, 0, 5, 50, 0, 30, 0>>).val)
          /\ trace = <<Step("time", "", 0), Step("write", "L", 1),
                       Step("read", "L", LightLen), Step("lux", "", 0),
                       Step("write", "T", 1), Step("read", "T", Len(raw))>>

NextDecode ==
    \/ LightDecode
    \/ TempDecode

SpecDecode == InitDecode /\ [][NextDecode]_vars

(***************************************************************************)
(* Properties.                                                             *)
(***************************************************************************)
\* the steps of a sampling cycle of Lightmeter.read in the order the code
\* takes them, and in the order with the temperature command first
CodeOrder ==
    <<<<"time", "">>, <<"write", "L">>, <<"read", "L">>, <<"lux", "">>,
      <<"write", "T">>, <<"read", "T">>, <<"Reading", "">>>>

TemperatureFirstOrder ==
    <<<<"time", "">>, <<"write", "T">>, <<"read", "T">>, <<"write", "L">>,
      <<"read", "L">>, <<"lux", "">>, <<"Reading", "">>>>

IsPrefix(p, q) == Len(p) <= Len(q) /\ \A i \in 1..Len(p) : p[i] = q[i]

Kinds(tr) == [i \in 1..Len(tr) |-> <<tr[i].op, tr[i].cmd>>]

Hardware == program = "lightmeter" /\ ~nohw

\* C1 as stated: in every sampling cycle of Lightmeter.read the instant is
\* captured first, then come the 'T' write and the 2-byte read, then the 'L'
\* write and the 7-byte read, then the illuminance, then the Reading.
C1_TemperatureFirst ==
    Hardware => IsPrefix(Kinds(trace), TemperatureFirstOrder)

\* C1 amended: in every sampling cycle of Lightmeter.read the instant is
\* captured before any transport operation, then come the 'L' write and the
\* 7-byte read, then the illuminance, then the 'T' write and the 2-byte read,
\* then the Reading, which carries the instant captured first whatever time
\* has passed since; the 'L' round trip completes before the 'T' write.
C1_LightFirst ==
    Hardware =>
      /\ IsPrefix(Kinds(trace), CodeOrder)
      /\ trace # <<>> => unix = trace[1].res
      /\ \A i \in 1..Len(trace) :
           /\ (trace[i].op = "write" /\ trace[i].cmd = "T") =>
                /\ trace[i - 2] = Step("read", "L", LightLen)
                /\ light # NoValue
           /\ trace[i].op = "Reading" =>
                /\ l # NoValue
                /\ l[1].unix = trace[1].res
                /\ l[1].utc = fromtimestamp(trace[1].res)
                /\ l[1].lightlevel = light[1].L
                /\ l[1].daylight = light[1].daylight
                /\ l[1].temperature = T[1]

C1_Witness ==
    /\ Hardware
    /\ pc = "emit"
    /\ Kinds(trace) = CodeOrder
    /\ now > l[1].unix

\* the transport operations of command cmd among the steps tr
Ops(tr, op, cmd) == {i \in 1..Len(tr) : tr[i].op = op /\ tr[i].cmd = cmd}

Transport(tr) == {i \in 1..Len(tr) : tr[i].op \in {"write", "read"}}

ExpectedLen(cmd) == IF cmd = "T" THEN TemperatureLen ELSE LightLen

\* the transport operation tr[i] did not do what the protocol expects
FailedOp(tr, i) ==
    \/ tr[i].op = "write" /\ tr[i].res # 1
    \/ tr[i].op = "read" /\ tr[i].res # ExpectedLen(tr[i].cmd)

\* C2: within one sampling cycle each opcode is written at most once, and
\* exactly once in a cycle that returns a Reading; a response is read at most
\* once and only right after its opcode's write returned 1; after a write
\* whose count is not 1 or a read whose length is not the expected one, no
\* transport operation follows in the cycle and the cycle ends in an error.
C2_OneAttempt ==
    Hardware =>
      /\ \A cmd \in {"L", "T"} :
           /\ Cardinality(Ops(trace, "write", cmd)) <= 1
           /\ Cardinality(Ops(trace, "read", cmd)) <= 1
           /\ \A i \in Ops(trace, "read", cmd) :
                i > 1 /\ trace[i - 1] = Step("write", cmd, 1)
           /\ pc = "emit" =>
                /\ Cardinality(Ops(trace, "write", cmd)) = 1
                /\ Cardinality(Ops(trace, "read", cmd)) = 1
      /\ \A i \in Transport(trace) :
           FailedOp(trace, i) =>
             /\ i = Len(trace)
             /\ pc \in {"L_decode", "T_decode", "raised", "exited"}
             /\ pc = "L_decode" => ~decodeLight(raw).ok
             /\ pc = "T_decode" => ~decodeTemperature(raw).ok
             /\ pc = "raised" => exc # ""

C2_Witness ==
    /\ Hardware
    /\ pc = "raised"
    /\ exc = "RuntimeError: USB write error"
    /\ Len(trace) = 5
    /\ trace[5] = Step("write", "T", 2)
    /\ Cardinality(Ops(trace, "read", "T")) = 0

\* a sampling cycle failed: a device command or the calibration raised
CycleFailed == cycle >= 1 /\ exc \notin {"", "KeyboardInterrupt"}

\* C3: when a device command or the calibration fails in a sampling cycle, no
\* Reading is returned and no record is written for that cycle, and the run
\* stops: no later sampling cycle starts and no later record is written.
C3_FailureStopsRun ==
    /\ [](CycleFailed =>
            /\ pc \in {"raised", "exited"}
            /\ Len(records) = cycle - 1
            /\ l = IF records = <<>> THEN NoValue ELSE records[Len(records)].reading)
    /\ [][CycleFailed =>
            /\ CycleFailed'
            /\ cycle' = cycle
            /\ records' = records
            /\ l' = l
            /\ stdout' \in {stdout, Append(stdout, FinishText)}]_vars

C3_Witness ==
    /\ pc = "exited"
    /\ exc = "RuntimeError: USB read error"
    /\ cycle = 2
    /\ Len(records) = 1
    /\ format = "text"

\* the schema preamble has been written
PreambleWritten ==
    \E i \in 1..Len(stdout) : stdout[i] \in {jsonSchemaPrefix, jsonSchemaPrefix \o "\n"}

\* C4: in json_table mode, once the schema preamble has been written, every
\* way the process ends (a failed cycle, an interrupt, a termination signal,
\* the end of the converter's input), with or without records, has written
\* the closing bracket exactly once, after the last record.
C4_ClosedOnEveryExit ==
    (format = "json_table" /\ PreambleWritten /\ pc = "exited") =>
      /\ Cardinality({i \in 1..Len(stdout) : stdout[i] = FinishText}) = 1
      /\ stdout[Len(stdout)] = FinishText

\* C5 as stated: two records of the same Reading in the same output mode are
\* written as the same bytes, the first record of a json_table stream and a
\* later one included.
C5_SameBytesAlways ==
    program = "lightmeter" =>
      \A i, j \in 1..Len(records) :
        records[i].reading = records[j].reading => records[i].text = records[j].text

\* C5 amended: in the modes text, json_lines and json_lines_long two records
\* of the same Reading are written as the same bytes; in json_table mode the
\* first record of the stream is a newline and the object, every later
\* record a comma, a newline and the object, so two later records of the
\* same Reading are the same bytes and differ from the first by the comma.
C5_SameBytesButFirst ==
    program = "lightmeter" =>
      \A i, j \in 1..Len(records) :
        records[i].reading = records[j].reading =>
          IF format = "json_table" /\ i = 1 /\ j > 1
          THEN /\ records[i].text = "\n" \o json(records[i].reading[1], TRUE)
               /\ records[j].text = "," \o records[i].text
          ELSE (format # "json_table" \/ (i = 1) = (j = 1)) =>
                 records[i].text = records[j].text

C5_Witness ==
    /\ program = "lightmeter"
    /\ format = "json_table"
    /\ Len(records) = 3
    /\ records[1].reading = records[2].reading
    /\ records[2].reading = records[3].reading

\* the channel counts of a 7-byte light response
Channel0(rawL) == rawL[4] + 256 * rawL[5]

Channel1(rawL) == rawL[6] + 256 * rawL[7]

RawReading(rawL) == rawL[1] + 256 * rawL[2]

\* a 7-byte light response has been through the decoding of _readLight
LightDecoded == Len(raw) = LightLen /\ pc \in {"T_write", "raised"}

\* the range factor of the range indices 1..5
RangeFactor(b2) ==
    CASE b2 = 1 -> 120 [] b2 = 2 -> 8 [] b2 = 3 -> 4 [] b2 = 4 -> 2 [] b2 = 5 -> 1

\* C6: a light response whose range index byte is 0 or above 5 makes
\* _readLight fail with an error and yield no light level, daylight or
\* status; for the indices 1 to 5 the factor is 120, 8, 4, 2, 1.
C6_RangeIndex ==
    LightDecoded =>
      /\ (raw[3] = 0 \/ raw[3] > 5) =>
           /\ pc = "raised"
           /\ exc \in {"TypeError", "IndexError"}
           /\ light = NoValue
      /\ (raw[3] \in 1..5 /\ pc = "T_write") =>
           light[1].L = RawReading(raw) * RangeFactor(raw[3])

C6_Witness ==
    /\ LightDecoded
    /\ raw[3] = 6
    /\ Channel0(raw) > 0
    /\ pc = "raised"
    /\ exc = "IndexError"
    /\ light = NoValue

\* channel 0 of the light response of the current cycle counts zero, with a
\* valid range index
Channel0Zero == Len(raw) = LightLen /\ raw[3] \in 1..5 /\ Channel0(raw) = 0

\* C7: a light response whose channel 0 count is 0, whatever channel 1, with
\* a valid range index, makes the sampling cycle fail with the division
\* error: the calibration returns no value, no Reading is produced and no
\* record is written for the cycle.
C7_ZeroChannelFails ==
    (Hardware /\ Channel0Zero) =>
      /\ pc \in {"L_decode", "raised", "exited"}
      /\ light = NoValue
      /\ T = NoValue
      /\ (pc # "L_decode" /\ exitKind # "SIGTERM" /\ exc # "KeyboardInterrupt") =>
           exc = "ZeroDivisionError"
      /\ Len(records) = cycle - 1
      /\ l = IF records = <<>> THEN NoValue ELSE records[Len(records)].reading

C7_Witness ==
    /\ Hardware
    /\ Channel0Zero
    /\ Channel1(raw) > 0
    /\ pc = "exited"
    /\ exc = "ZeroDivisionError"
    /\ cycle = 2
    /\ Len(records) = 1

\* the calibration table: the branch by the exact ratio Ch1/Ch0, each
\* boundary in the lower interval, and 21 times the formula, in 1/100000 lux
TableLux(Ch0, Ch1) ==
    IF 2 * Ch1 <= Ch0 THEN LuxPow(Ch0, Ch1)
    ELSE IF 100 * Ch1 <= 61 * Ch0 THEN LuxValue(21 * (2240 * Ch0 - 3100 * Ch1))
    ELSE IF 10 * Ch1 <= 8 * Ch0 THEN LuxValue(21 * (1280 * Ch0 - 1530 * Ch1))
    ELSE IF 10 * Ch1 <= 13 * Ch0 THEN LuxValue(21 * (146 * Ch0 - 112 * Ch1))
    ELSE LuxValue(0)

\* C8: for counts with channel 0 above zero _luxFromDaysensor takes the
\* branch of the table by the exact ratio, each boundary belonging to the
\* lower interval, never the 'invalid ratio' branch, and returns 21 times the
\* table's formula, unclamped; Ch0 = 50, Ch1 = 30 gives 3.99.
C8_CalibrationTable ==
    /\ exc # "RuntimeError: Invalid daysensor channel ratio."
    /\ (LightDecoded /\ raw[3] \in 1..5 /\ Channel0(raw) > 0) =>
         /\ pc = "T_write"
         /\ light[1].daylight = TableLux(Channel0(raw), Channel1(raw))
         /\ (Channel0(raw) = 50 /\ Channel1(raw) = 30) =>
              /\ light[1].daylight.num * 100 = 399 * light[1].daylight.den
              /\ DaylightFormat3g(light[1].daylight) = "3.99"

C8_Witness ==
    /\ LightDecoded
    /\ pc = "T_write"
    /\ Channel0(raw) = 100
    /\ Channel1(raw) = 61
    /\ light[1].daylight = LuxValue(21 * (224000 - 189100))

\* C9: for a 7-byte light response with a range index in 1..5 and channel 0
\* above zero the light level is the raw count times the range factor and
\* the status is raw count < 32000, strictly and before scaling: 32000 gives
\* false and 31999 true for every range factor.
C9_LevelAndStatus ==
    (LightDecoded /\ raw[3] \in 1..5 /\ Channel0(raw) > 0) =>
      /\ pc = "T_write"
      /\ light[1].L = RawReading(raw) * RangeFactor(raw[3])
      /\ light[1].isOK = (RawReading(raw) < 32000)
      /\ RawReading(raw) = 32000 => ~light[1].isOK
      /\ RawReading(raw) = 31999 => light[1].isOK

C9_Witness ==
    /\ LightDecoded
    /\ pc = "T_write"
    /\ raw[3] = 5
    /\ RawReading(raw) = 31999
    /\ light[1].L = 31999
    /\ light[1].isOK

\* a 2-byte temperature response has been through the decoding of
\* _readTemperature
TemperatureDecoded == Len(raw) = TemperatureLen /\ pc \in {"assemble", "raised"}

\* C10: every 2-byte temperature response (b0, b1) decodes, to a temperature
\* whose 16-fold is (b0 div 8) + 32*b1, so the low 3 bits of b0 do not count:
\* (0, 8) decodes to 16.0 and (255, 0) to 1.9375.
C10_Temperature ==
    TemperatureDecoded =>
      /\ pc = "assemble"
      /\ T[1].num * 16 = (raw[1] \div 8 + 32 * raw[2]) * T[1].den
      /\ raw = <<0, 8>> => FloatStr(T[1]) = "16.0"
      /\ raw = <<255, 0>> => FloatStr(T[1]) = "1.9375"
      /\ raw[1] % 8 # 0 =>
           T[1] = decodeTemperature(<<8 * (raw[1] \div 8), raw[2]>>).val

C10_Witness ==
    /\ TemperatureDecoded
    /\ raw = <<255, 0>>
    /\ T = Some(TrueDiv(31, 16))

=============================================================================
